---- MODULE Spec2Model ----
(***************************************************************************)
(* State-machine model of src/components/VoiceRecognition.tsx: the voice   *)
(* capture control of the Bengkel-AR app.  The controller state is the     *)
(* three React state cells (isListening, isProcessing, error); the         *)
(* backends are the browser SpeechRecognition objects created by           *)
(* startListening, the pair of chained setTimeout timers of the simulated  *)
(* fallback, and the module-level native Voice engine.                     *)
(*                                                                         *)
(* Time is in ms and passes in steps of the shorter timer delay.  Optional  *)
(* JavaScript values (null / undefined) are sequences: <<>> is absent,     *)
(* <<v>> is v.                                                             *)
(***************************************************************************)
EXTENDS Integers, Sequences, FiniteSets, TLC

\* ------------------------------------------------------------------ bounds
\* Accepted startListening calls in one behaviour.
MaxStarts == 3

\* ------------------------------------------------------- program constants
\* setTimeout(..., 3000): the delay of the outer timer, in ms.
PhaseDelay == 3000
\* setTimeout(..., 1000): the delay of the inner timer, in ms.
ResultDelay == 1000

VOICE_RESPONSES ==
    << "bagaimana cara ganti oli",
       "kenapa mesin overheat",
       "cara check aki mobil",
       "suara mesin kasar",
       "rem blong penyebabnya",
       "ac mobil tidak dingin" >>

None == <<>>
Some(x) == <<x>>

\* ------------------------------------------------- inputs of the backends
\* Transcripts an engine can deliver: empty, whitespace-only, and a phrase.
Transcripts == {"", " ", "ganti oli"}
\* event.results[0][0] of a browser result event: absent, or an alternative
\* carrying a transcript.
BrowserResults == {None} \cup {Some(t) : t \in Transcripts}
\* e.value of a native result event: undefined, an empty array, or an array
\* of alternatives.
NativeValues ==
    {None, Some(<<>>)} \cup {Some(<<t>>) : t \in Transcripts}
        \cup {Some(<<"ganti oli", "ganti olie">>)}
\* The detail an engine reports with an error.
ErrorDetails == {"permission denied", "network"}
\* e.error?.message of a native error event, e.message of a rejected start.
NativeDetails == {None} \cup {Some(d) : d \in ErrorDetails}

VARIABLES
    platformOS,            \* Platform.OS: "web" or "native"
    isEnabled,             \* the isEnabled prop
    isListening,           \* useState(false)
    isProcessing,          \* useState(false)
    error,                 \* useState<string | null>(null)
    recognition,           \* per session: the state of its SpeechRecognition object
    timers,                \* pending setTimeout callbacks, in firing order
    voicePhase,            \* the native Voice engine: "off", "on", "stopping"
    voicePending,          \* unsettled Voice.start promises
    voiceSess,             \* the session of the latest Voice.start
    backendOf,             \* per session: the backend startListening chose
    engineSeen,            \* per session: what the test for the engine in window gave
    stopped,               \* sessions on which stopListening was called
    notified,              \* last argument of onListeningChange (false at first)
    inSession,             \* an accepted start has not yet been followed by Idle
    sessResults,           \* onVoiceResult calls within the current session
    lastOp                 \* the handler that ran last, its pre-state and its callbacks

vars ==
    << platformOS, isEnabled, isListening, isProcessing,
       error, recognition, timers, voicePhase, voicePending, voiceSess,
       backendOf, engineSeen, stopped, notified, inSession, sessResults, lastOp >>

\* ---------------------------------------------------------------- helpers
nStarts == Len(backendOf)

Idle == ~isListening /\ ~isProcessing

\* The callbacks of the props, as entries of lastOp.calls.
ListeningCall(b) == [cb |-> "onListeningChange", v |-> b]
ResultCall(t) == [cb |-> "onVoiceResult", text |-> t]

ListeningCalls(calls) ==
    SelectSeq(calls, LAMBDA c : c.cb = "onListeningChange")
ResultCalls(calls) ==
    SelectSeq(calls, LAMBDA c : c.cb = "onVoiceResult")

\* The last value a sequence of callbacks leaves with the parent.
NotifiedAfter(n, calls) ==
    LET ls == ListeningCalls(calls)
    IN  IF ls = <<>> THEN n ELSE ls[Len(ls)].v

PreState ==
    [isListening |-> isListening, isProcessing |-> isProcessing,
     error |-> error, notified |-> notified]

\* A handler's record: its name, the session of the backend instance it
\* belongs to (the new session for start, the current one for stop), the
\* strings it was given (the alternatives of a result, the detail of an
\* error), whether that instance had already delivered a terminal event, the
\* controller before it ran and the callbacks it invoked, in order.
Op(name, sess, arg, again, calls) ==
    [op |-> name, sess |-> sess, arg |-> arg, again |-> again,
     pre |-> PreState, calls |-> calls]

NoOp ==
    [op |-> "none", sess |-> 0, arg |-> None, again |-> FALSE,
     pre |-> [isListening |-> FALSE, isProcessing |-> FALSE,
              error |-> None, notified |-> FALSE],
     calls |-> <<>>]

\* JavaScript's x || dflt on an optional string.
OrDefault(x, dflt) == IF x = None \/ x = Some("") THEN dflt ELSE x[1]

\* The bookkeeping every handler shares: the callbacks it made.  A session
\* runs from an accepted start until the controller is next Idle.
Observe(name, sess, arg, again, calls) ==
    LET accepted == name = "startListening" /\ calls # <<>>
    IN  /\ lastOp' = Op(name, sess, arg, again, calls)
        /\ notified' = NotifiedAfter(notified, calls)
        /\ inSession' = ((accepted \/ inSession) /\ (isListening' \/ isProcessing'))
        /\ sessResults' =
             IF accepted THEN 0
             ELSE IF inSession THEN sessResults + Len(ResultCalls(calls))
             ELSE sessResults

\* A step of the environment that runs no handler of the component.
Quiet ==
    /\ lastOp' = NoOp
    /\ UNCHANGED <<notified, inSession, sessResults>>

\* setTimeout: the new timer fires after every pending timer that is due no
\* later than it.
SetTimeout(ts, t) ==
    LET k == Cardinality({i \in 1..Len(ts) : ts[i].rem <= t.rem})
    IN  SubSeq(ts, 1, k) \o <<t>> \o SubSeq(ts, k + 1, Len(ts))

\* getStatusText: the computed status text.
getStatusText ==
    IF error # None /\ error # Some("") THEN error[1]
    ELSE IF isProcessing THEN "Memproses..."
    ELSE IF isListening THEN "Mendengarkan..."
    ELSE "Tekan untuk berbicara"

\* The status line the component renders under the button.
StatusText == IF isEnabled THEN getStatusText ELSE "Voice tidak tersedia"

\* ------------------------------------------------------------------- Init
Init ==
    /\ platformOS \in {"web", "native"}
    /\ isEnabled \in BOOLEAN
    /\ isListening = FALSE
    /\ isProcessing = FALSE
    /\ error = None
    /\ recognition = <<>>
    /\ timers = <<>>
    /\ voicePhase = "off"
    /\ voicePending = {}
    /\ voiceSess = 0
    /\ backendOf = <<>>
    /\ engineSeen = <<>>
    /\ stopped = {}
    /\ notified = FALSE
    /\ inSession = FALSE
    /\ sessResults = 0
    /\ lastOp = NoOp

\* --------------------------------------------------------- startListening
\* What 'webkitSpeechRecognition' in window || 'SpeechRecognition' in window
\* can be when startListening reads it.
WindowEngines == IF platformOS = "web" THEN BOOLEAN ELSE {FALSE}

\* The choice of backend made once, at the first start, and kept.
SelectBackendCached(hasSpeechRecognition) ==
    IF nStarts > 0 THEN backendOf[1]
    ELSE IF platformOS = "web"
    THEN IF hasSpeechRecognition THEN "Browser" ELSE "Simulated"
    ELSE "Native"

\* The backend startListening uses: Platform.OS and the presence of the
\* browser engine at the moment of the call.
SelectBackend(hasSpeechRecognition) ==
    IF platformOS = "web"
    THEN IF hasSpeechRecognition THEN "Browser" ELSE "Simulated"
    ELSE "Native"

\* Whether recognition.start() can throw: only a browser engine is started
\* synchronously, and nothing in startListening catches what it throws.
StartFailures(hasSpeechRecognition) ==
    IF SelectBackend(hasSpeechRecognition) = "Browser" THEN BOOLEAN ELSE {FALSE}

\* The name of the DOMException recognition.start() throws.
StartException == "InvalidStateError"

\* startListening with the setError(null) of its first line forgotten.
StartListeningKeepsError(hasSpeechRecognition, startThrows) ==
    IF ~isEnabled
    THEN /\ UNCHANGED <<platformOS, isEnabled, isListening, error,
                        isProcessing, recognition, timers, voicePhase,
                        voicePending, voiceSess, backendOf, engineSeen, stopped>>
         /\ Observe("startListening", 0, None, FALSE, <<>>)
    ELSE /\ nStarts < MaxStarts
         /\ isListening' = TRUE
         /\ isProcessing' = FALSE
         /\ backendOf' = Append(backendOf, SelectBackend(hasSpeechRecognition))
         /\ engineSeen' = Append(engineSeen, hasSpeechRecognition)
         /\ recognition' =
              Append(recognition,
                     IF SelectBackend(hasSpeechRecognition) # "Browser" THEN "none"
                     ELSE IF startThrows THEN "failed" ELSE "started")
         /\ timers' =
              IF SelectBackend(hasSpeechRecognition) = "Simulated"
              THEN SetTimeout(timers, [kind |-> "phase", rem |-> PhaseDelay,
                                       sess |-> nStarts + 1])
              ELSE timers
         /\ IF SelectBackend(hasSpeechRecognition) = "Native"
            THEN /\ voicePhase' = "on"
                 /\ voicePending' = voicePending \cup {nStarts + 1}
                 /\ voiceSess' = nStarts + 1
            ELSE UNCHANGED <<voicePhase, voicePending, voiceSess>>
         /\ UNCHANGED <<platformOS, isEnabled, stopped, error>>
         /\ Observe("startListening", nStarts + 1,
                    IF startThrows THEN Some(StartException) ELSE None, FALSE,
                    <<ListeningCall(TRUE)>>)

StartListening(hasSpeechRecognition, startThrows) ==
    IF ~isEnabled
    THEN /\ error' = None
         /\ UNCHANGED <<platformOS, isEnabled, isListening,
                        isProcessing, recognition, timers, voicePhase,
                        voicePending, voiceSess, backendOf, engineSeen, stopped>>
         /\ Observe("startListening", 0, None, FALSE, <<>>)
    ELSE /\ nStarts < MaxStarts
         /\ error' = None
         /\ isListening' = TRUE
         /\ isProcessing' = FALSE
         /\ backendOf' = Append(backendOf, SelectBackend(hasSpeechRecognition))
         /\ engineSeen' = Append(engineSeen, hasSpeechRecognition)
         /\ recognition' =
              Append(recognition,
                     IF SelectBackend(hasSpeechRecognition) # "Browser" THEN "none"
                     ELSE IF startThrows THEN "failed" ELSE "started")
         /\ timers' =
              IF SelectBackend(hasSpeechRecognition) = "Simulated"
              THEN SetTimeout(timers, [kind |-> "phase", rem |-> PhaseDelay,
                                       sess |-> nStarts + 1])
              ELSE timers
         /\ IF SelectBackend(hasSpeechRecognition) = "Native"
            THEN /\ voicePhase' = "on"
                 /\ voicePending' = voicePending \cup {nStarts + 1}
                 /\ voiceSess' = nStarts + 1
            ELSE UNCHANGED <<voicePhase, voicePending, voiceSess>>
         /\ UNCHANGED <<platformOS, isEnabled, stopped>>
         /\ Observe("startListening", nStarts + 1,
                    IF startThrows THEN Some(StartException) ELSE None, FALSE,
                    <<ListeningCall(TRUE)>>)

\* ---------------------------------------------------------- stopListening
StopListening ==
    /\ isListening' = FALSE
    /\ isProcessing' = FALSE
    /\ stopped' = IF nStarts > 0 THEN stopped \cup {nStarts} ELSE stopped
    /\ voicePhase' =
         IF platformOS # "web" /\ voicePhase = "on" THEN "stopping" ELSE voicePhase
    /\ UNCHANGED <<platformOS, isEnabled, error,
                   recognition, timers, voicePending, voiceSess, backendOf, engineSeen>>
    /\ Observe("stopListening", nStarts, None, FALSE, <<ListeningCall(FALSE)>>)

\* -------------------------------------------------------- toggleListening
\* onPress of the microphone button, which is disabled when !isEnabled or
\* isProcessing.
ToggleListening ==
    /\ isEnabled
    /\ ~isProcessing
    /\ IF isListening
       THEN StopListening
       ELSE \E e \in WindowEngines : \E t \in StartFailures(e) : StartListening(e, t)

\* ------------------------------------- browser engine (SpeechRecognition)
\* What is left alone by a handler of a SpeechRecognition object.
RecognitionFrame ==
    UNCHANGED <<platformOS, isEnabled, timers, voicePhase,
                voicePending, voiceSess, backendOf, engineSeen, stopped>>

\* recognition.onresult of the object created for session s.
RecognitionOnResult(s, r) ==
    /\ recognition[s] = "started"
    /\ recognition' = [recognition EXCEPT ![s] = "fired"]
    /\ isListening' = FALSE
    /\ isProcessing' = FALSE
    /\ UNCHANGED error
    /\ RecognitionFrame
    /\ Observe("onresult", s, r, FALSE,
               <<ListeningCall(FALSE)>>
                   \o (IF r # None THEN <<ResultCall(r[1])>> ELSE <<>>))

\* recognition.onerror of the object created for session s.
RecognitionOnError(s, d) ==
    /\ recognition[s] = "started"
    /\ recognition' = [recognition EXCEPT ![s] = "fired"]
    /\ isListening' = FALSE
    /\ isProcessing' = FALSE
    /\ error' = Some("Voice error: " \o d)
    /\ RecognitionFrame
    /\ Observe("onerror", s, Some(d), FALSE, <<ListeningCall(FALSE)>>)

\* recognition.onend of the object created for session s: the engine ends
\* every recognition with it, after a result or an error as well.
RecognitionOnEnd(s) ==
    /\ recognition[s] \in {"started", "fired"}
    /\ recognition' = [recognition EXCEPT ![s] = "ended"]
    /\ isListening' = FALSE
    /\ isProcessing' = FALSE
    /\ UNCHANGED error
    /\ RecognitionFrame
    /\ Observe("onend", s, None, recognition[s] = "fired", <<ListeningCall(FALSE)>>)

\* ------------------------------------------- simulated fallback (timers)
TimerFrame ==
    UNCHANGED <<platformOS, isEnabled, recognition,
                voicePhase, voicePending, voiceSess, backendOf, engineSeen, stopped>>

\* The outer setTimeout callback with its setIsListening(false) forgotten.
PhaseTimerKeepsListening ==
    /\ timers # <<>>
    /\ Head(timers).rem = 0
    /\ Head(timers).kind = "phase"
    /\ isProcessing' = TRUE
    /\ timers' = SetTimeout(Tail(timers),
                            [kind |-> "result", rem |-> ResultDelay,
                             sess |-> Head(timers).sess])
    /\ UNCHANGED <<isListening, error>>
    /\ TimerFrame
    /\ Observe("phaseTimer", Head(timers).sess, None, FALSE, <<>>)

\* The outer setTimeout callback, 3000 ms after startListening.
PhaseTimer ==
    /\ timers # <<>>
    /\ Head(timers).rem = 0
    /\ Head(timers).kind = "phase"
    /\ isListening' = FALSE
    /\ isProcessing' = TRUE
    /\ timers' = SetTimeout(Tail(timers),
                            [kind |-> "result", rem |-> ResultDelay,
                             sess |-> Head(timers).sess])
    /\ UNCHANGED error
    /\ TimerFrame
    /\ Observe("phaseTimer", Head(timers).sess, None, FALSE, <<>>)

\* The inner setTimeout callback, 1000 ms after the outer one; i is
\* Math.floor(Math.random() * VOICE_RESPONSES.length).
ResultTimer(i) ==
    /\ timers # <<>>
    /\ Head(timers).rem = 0
    /\ Head(timers).kind = "result"
    /\ isProcessing' = FALSE
    /\ timers' = Tail(timers)
    /\ UNCHANGED <<isListening, error>>
    /\ TimerFrame
    /\ Observe("resultTimer", Head(timers).sess, None, FALSE,
               <<ResultCall(VOICE_RESPONSES[i + 1]), ListeningCall(FALSE)>>)

\* Time passes, by the shorter of the two delays; a timer that is due fires
\* before more time passes.
Tick ==
    /\ timers # <<>>
    /\ \A i \in 1..Len(timers) : timers[i].rem > 0
    /\ timers' = [i \in 1..Len(timers) |->
                    [timers[i] EXCEPT !.rem = timers[i].rem - ResultDelay]]
    /\ UNCHANGED <<platformOS, isEnabled, isListening,
                   isProcessing, error, recognition, voicePhase, voicePending,
                   voiceSess, backendOf, engineSeen, stopped>>
    /\ Quiet

\* ------------------------------------------------- native engine (Voice)
VoiceFrame ==
    UNCHANGED <<platformOS, isEnabled, recognition,
                timers, voiceSess, backendOf, engineSeen, stopped>>

\* await Voice.start('id-ID') returns normally; startListening ends.
VoiceStartResolved(s) ==
    /\ s \in voicePending
    /\ voicePending' = voicePending \ {s}
    /\ UNCHANGED <<isListening, isProcessing, error, voicePhase>>
    /\ VoiceFrame
    /\ Quiet

\* await Voice.start('id-ID') throws: the catch block of startListening.
VoiceStartRejected(s, d) ==
    /\ s \in voicePending
    /\ voicePending' = voicePending \ {s}
    /\ voicePhase' = IF s = voiceSess THEN "off" ELSE voicePhase
    /\ isListening' = FALSE
    /\ isProcessing' = FALSE
    /\ error' = Some("Voice error: " \o OrDefault(d, "Unknown error"))
    /\ VoiceFrame
    /\ Observe("startRejected", s, d, FALSE, <<ListeningCall(FALSE)>>)

\* Voice.onSpeechResults, set by the mount effect; v is e.value.  Voice.stop
\* ends the listening, and the engine still delivers what it heard.
OnSpeechResults(v) ==
    /\ platformOS = "native"
    /\ voicePhase \in {"on", "stopping"}
    /\ voicePhase' = "off"
    /\ isListening' = FALSE
    /\ isProcessing' = FALSE
    /\ UNCHANGED <<error, voicePending>>
    /\ VoiceFrame
    /\ Observe("onSpeechResults", voiceSess,
               IF v = None THEN None ELSE v[1], FALSE,
               <<ListeningCall(FALSE)>>
                   \o (IF v # None /\ Len(v[1]) > 0
                       THEN <<ResultCall(v[1][1])>> ELSE <<>>))

\* Voice.onSpeechError with the prefix of the message forgotten.
OnSpeechErrorNoPrefix(d) ==
    /\ platformOS = "native"
    /\ voicePhase \in {"on", "stopping"}
    /\ voicePhase' = "off"
    /\ isListening' = FALSE
    /\ isProcessing' = FALSE
    /\ error' = Some(OrDefault(d, "Unknown error"))
    /\ UNCHANGED voicePending
    /\ VoiceFrame
    /\ Observe("onSpeechError", voiceSess, d, FALSE, <<ListeningCall(FALSE)>>)

\* Voice.onSpeechError, set by the mount effect; d is e.error?.message.
OnSpeechError(d) ==
    /\ platformOS = "native"
    /\ voicePhase \in {"on", "stopping"}
    /\ voicePhase' = "off"
    /\ isListening' = FALSE
    /\ isProcessing' = FALSE
    /\ error' = Some("Voice error: " \o OrDefault(d, "Unknown error"))
    /\ UNCHANGED voicePending
    /\ VoiceFrame
    /\ Observe("onSpeechError", voiceSess, d, FALSE, <<ListeningCall(FALSE)>>)

\* The engine signals the end of speech with no result: the component sets
\* no Voice.onSpeechEnd, so no handler runs.
SpeechEnd ==
    /\ platformOS = "native"
    /\ voicePhase \in {"on", "stopping"}
    /\ voicePhase' = "off"
    /\ UNCHANGED <<isListening, isProcessing, error, voicePending>>
    /\ VoiceFrame
    /\ Observe("speechEnd", voiceSess, None, FALSE, <<>>)

\* ------------------------------------------------------------ environment
\* The parent re-renders the component with another isEnabled.
SetEnabled ==
    /\ isEnabled' = ~isEnabled
    /\ UNCHANGED <<platformOS, isListening, isProcessing,
                   error, recognition, timers, voicePhase, voicePending,
                   voiceSess, backendOf, engineSeen, stopped>>
    /\ Quiet

\* --------------------------------------------------------- specifications
Backend ==
    \/ \E s \in 1..nStarts : \E r \in BrowserResults : RecognitionOnResult(s, r)
    \/ \E s \in 1..nStarts : \E d \in ErrorDetails : RecognitionOnError(s, d)
    \/ \E s \in 1..nStarts : RecognitionOnEnd(s)
    \/ PhaseTimer
    \/ \E i \in 0..(Len(VOICE_RESPONSES) - 1) : ResultTimer(i)
    \/ Tick
    \/ \E s \in 1..nStarts : VoiceStartResolved(s)
    \/ \E s \in 1..nStarts : \E d \in NativeDetails : VoiceStartRejected(s, d)
    \/ \E v \in NativeValues : OnSpeechResults(v)
    \/ \E d \in NativeDetails : OnSpeechError(d)
    \/ SpeechEnd

Environment == SetEnabled

\* The component as mounted: the button is the only way to start and stop.
Next == ToggleListening \/ Backend \/ Environment

Spec == Init /\ [][Next]_vars

\* The controller's two operations called directly, in any state.
NextOps ==
    \/ \E e \in WindowEngines : \E t \in StartFailures(e) : StartListening(e, t)
    \/ StopListening
    \/ Backend
    \/ Environment

SpecOps == Init /\ [][NextOps]_vars

\* ================================================================= claims
\* The handlers of a backend instance's events: result, error, end and the
\* two simulated timers.
BackendOps ==
    {"onresult", "onerror", "onend", "phaseTimer", "resultTimer",
     "onSpeechResults", "onSpeechError"}

\* The controller and the parent are as they were before the last handler.
LeftUnchanged ==
    /\ isListening = lastOp.pre.isListening
    /\ isProcessing = lastOp.pre.isProcessing
    /\ error = lastOp.pre.error
    /\ notified = lastOp.pre.notified

PreIdle == ~lastOp.pre.isListening /\ ~lastOp.pre.isProcessing

\* The values the parent has received through onListeningChange up to and
\* including the last handler: the one before it, then the handler's own.
ListeningTrail ==
    <<lastOp.pre.notified>>
        \o [i \in 1..Len(ListeningCalls(lastOp.calls)) |->
              ListeningCalls(lastOp.calls)[i].v]

\* C1: start(), stop() and the backend events (result, error, end, the
\* simulated timers) never invoke onListeningChange with the same value twice
\* in a row, the value before the first call counting as false.
C1_NoDuplicateListeningChange ==
    lastOp.op \in BackendOps \cup {"startListening", "stopListening"}
        => \A i \in 1..(Len(ListeningTrail) - 1) :
              ListeningTrail[i] # ListeningTrail[i + 1]

\* C2: the result timer of a simulated session on which stop() was called
\* never invokes onVoiceResult (under Spec a stop on a simulated session
\* always comes before that session's 3000 ms timer).
C2_StopCancelsSimulatedTimers ==
    (lastOp.op = "resultTimer" /\ lastOp.sess \in stopped)
        => ResultCalls(lastOp.calls) = <<>>

\* C3: an event of a backend instance on which stop() has been called invokes
\* no callback and leaves the controller as it was.
C3_NoEventAfterStop ==
    (lastOp.op \in BackendOps /\ lastOp.sess \in stopped)
        => (lastOp.calls = <<>> /\ LeftUnchanged)

\* Every session so far used the same backend: the runtime did not change.
OneBackend == \A s \in 1..nStarts : backendOf[s] = backendOf[1]

\* C4: onVoiceResult is invoked at most once between an accepted start() and
\* the controller's next return to Idle (stated for the behaviours in which
\* the runtime keeps one backend).
C4_AtMostOneResultPerSession == OneBackend => sessResults <= 1

\* The first alternative a result event carries, if any.
FirstTranscript == IF lastOp.arg = None THEN None ELSE Some(lastOp.arg[1])

\* Empty and whitespace-only texts, among the transcripts of the model.
BlankTexts == {"", " "}

\* C5: a result with an empty, whitespace-only or absent transcript in an
\* active session returns the controller to Idle, notifies listening=false
\* and does not invoke onVoiceResult; no onVoiceResult call carries a blank
\* text.
C5_EmptyResultPolicy ==
    /\ ( /\ lastOp.op \in {"onresult", "onSpeechResults"}
         /\ ~PreIdle
         /\ (FirstTranscript = None \/ FirstTranscript[1] \in BlankTexts) )
          => /\ Idle
             /\ lastOp.calls = <<ListeningCall(FALSE)>>
    /\ \A i \in 1..Len(lastOp.calls) :
          lastOp.calls[i].cb = "onVoiceResult"
              => lastOp.calls[i].text \notin BlankTexts

\* The backend instances that still have a callback to deliver: recognition
\* objects that have not ended, sessions with a pending timer, and the
\* native engine while it runs or its start is unsettled.
PendingInstances ==
    Cardinality({s \in 1..nStarts : recognition[s] \in {"started", "fired"}})
    + Cardinality({timers[i].sess : i \in 1..Len(timers)})
    + (IF voicePhase # "off" \/ voicePending # {} THEN 1 ELSE 0)

\* C6: at most one backend instance with pending callbacks exists, and an
\* instance is created only when the controller is Idle.
C6_SingleBackendInstance ==
    /\ PendingInstances <= 1
    /\ (lastOp.op = "startListening" /\ lastOp.calls # <<>>) => PreIdle

OwnTimers == {i \in 1..Len(timers) : timers[i].sess = nStarts}

\* No real backend has been available to any session, and stop() has not
\* been called on the current one.
SimulatedUnstopped ==
    /\ nStarts > 0
    /\ \A s \in 1..nStarts : backendOf[s] = "Simulated"
    /\ nStarts \notin stopped

\* C8: in a simulated session with no stop(): before 3000 ms the controller
\* is Listening; from 3000 ms until 4000 ms it is Processing; no onVoiceResult
\* call is made before 4000 ms; the session's own result timer makes exactly
\* one onVoiceResult call, with a phrase of the corpus, and leaves the
\* controller Idle with listening=false notified.
C8_SimulatedTiming ==
    SimulatedUnstopped =>
        /\ \A i \in OwnTimers :
              /\ (timers[i].kind = "phase" /\ timers[i].rem > 0)
                    => (isListening /\ ~isProcessing)
              /\ timers[i].kind = "result" => (isProcessing /\ ~isListening)
        /\ (OwnTimers # {}) => ResultCalls(lastOp.calls) = <<>>
        /\ (lastOp.op = "resultTimer" /\ lastOp.sess = nStarts)
              => /\ Len(ResultCalls(lastOp.calls)) = 1
                 /\ \E k \in 1..Len(VOICE_RESPONSES) :
                       ResultCalls(lastOp.calls)[1].text = VOICE_RESPONSES[k]
                 /\ Idle
                 /\ notified = FALSE

C10_SecondTerminalEventIsNoOp ==
    (lastOp.again /\ PreIdle) => (lastOp.calls = <<>> /\ LeftUnchanged)

ErrorOps == {"onerror", "onSpeechError", "startRejected"}

PolicyBackend(s) ==
    IF platformOS # "web" THEN "Native"
    ELSE IF engineSeen[s] THEN "Browser"
    ELSE "Simulated"

\* C13: every accepted start() uses the backend the policy names for the
\* runtime at that moment (not the one of an earlier session), and starts
\* that backend; a browser without the engine gives the simulated fallback
\* and no error state.
C13_BackendSelection ==
    /\ \A s \in 1..nStarts : backendOf[s] = PolicyBackend(s)
    /\ (lastOp.op = "startListening" /\ lastOp.calls # <<>>)
          => /\ backendOf[lastOp.sess] = "Browser" <=> recognition[lastOp.sess] # "none"
             /\ backendOf[lastOp.sess] = "Simulated"
                   <=> \E i \in 1..Len(timers) :
                          timers[i] = [kind |-> "phase", rem |-> PhaseDelay,
                                       sess |-> lastOp.sess]
             /\ backendOf[lastOp.sess] = "Native"
                   <=> (voicePhase = "on" /\ voiceSess = lastOp.sess)
             /\ (platformOS = "web" /\ ~engineSeen[lastOp.sess])
                   => (error = None /\ isListening /\ ~isProcessing)

\* C13 witness: the engine was present at the first start and absent at the
\* second, which has just been accepted with the simulated fallback.
C13_Witness ==
    /\ lastOp.op = "startListening"
    /\ lastOp.sess = 2
    /\ engineSeen = <<TRUE, FALSE>>
    /\ backendOf = <<"Browser", "Simulated">>
    /\ error = None

\* The status text the mapping of the session states gives: the Processing
\* and Listening texts while a session is active, the stored message in
\* Error (Idle with a message), the prompt in Idle.
SessionStatus ==
    IF isProcessing THEN "Memproses..."
    ELSE IF isListening THEN "Mendengarkan..."
    ELSE IF error # None THEN error[1]
    ELSE "Tekan untuk berbicara"

\* C14: with enabled=true the status shown is the text of the session state;
\* while the controller is Listening or Processing it is never the error
\* message of an earlier session.
C14_StatusOfSessionState == isEnabled => StatusText = SessionStatus

\* C15: the listening flag and the processing flag are never both true.
C15_OneSessionState == ~(isListening /\ isProcessing)

\* C15 witness: the outer timer of an earlier session has fired while the
\* controller was Listening for a newer one, and left it Processing only.
C15_Witness ==
    /\ lastOp.op = "phaseTimer"
    /\ lastOp.sess < nStarts
    /\ lastOp.pre.isListening
    /\ isProcessing
    /\ ~isListening

\* C16: a handler that brings the controller into Processing is the outer
\* timer of the current session, that session is simulated, and the
\* controller was Listening when it fired.
C16_ProcessingOnlyFromListening ==
    (lastOp.op # "none" /\ isProcessing /\ ~lastOp.pre.isProcessing)
        => /\ lastOp.op = "phaseTimer"
           /\ lastOp.pre.isListening
           /\ lastOp.sess = nStarts
           /\ backendOf[nStarts] = "Simulated"

\* C17: when the engine of the current session (browser or native) signals
\* the end of speech with no result before it, the controller being
\* Listening, the controller returns to Idle, notifies listening=false, sets
\* no error message and does not invoke onVoiceResult.
C17_EndWithoutResult ==
    ( /\ lastOp.op \in {"onend", "speechEnd"}
      /\ ~lastOp.again
      /\ lastOp.sess = nStarts
      /\ lastOp.pre.isListening )
        => /\ Idle
           /\ lastOp.calls = <<ListeningCall(FALSE)>>
           /\ notified = FALSE
           /\ error = lastOp.pre.error

\* C18: a failure of the current session's backend to start (Voice.start
\* rejected with message m while the controller is Listening, or
\* recognition.start() throwing m) leaves the controller Idle with the error
\* message "Voice error: " followed by m and listening=false notified.
C18_StartFailureHandled ==
    ( \/ /\ lastOp.op = "startRejected"
          /\ lastOp.sess = nStarts
          /\ lastOp.pre.isListening
          /\ lastOp.arg # None
       \/ /\ lastOp.op = "startListening"
          /\ lastOp.arg # None )
        => /\ Idle
           /\ error = Some("Voice error: " \o lastOp.arg[1])
           /\ notified = FALSE

\* C19: at the moment a handler invokes onVoiceResult, the last value
\* delivered through onListeningChange is false.
C19_NotifyBeforeResult ==
    \A i \in 1..Len(lastOp.calls) :
        lastOp.calls[i].cb = "onVoiceResult"
            => ~NotifiedAfter(lastOp.pre.notified, SubSeq(lastOp.calls, 1, i - 1))

\* C20: between two operations the last value delivered through
\* onListeningChange (false before any call) is true exactly when the
\* controller is Listening or Processing.
C20_NotifiedIffActive == notified <=> (isListening \/ isProcessing)

====
